---- MODULE Spec2Model ----
(***************************************************************************)
(* One call handled by the voice bot: the AGI protocol session             *)
(* (agi_interface.SimpleAGI), the barge-in player, the turn input          *)
(* collector (FastInterruptRecorder) and the dialogue controller           *)
(* (voicebot_main.main / handle_greeting / conversation_loop).             *)
(*                                                                         *)
(* Text is a sequence of one-character strings, so that lower(), strip(),  *)
(* startswith() and the substring tests are computed as the code computes  *)
(* them.  Python's None and '' are both the empty sequence: the code only  *)
(* ever tests such values for truthiness.                                  *)
(***************************************************************************)
EXTENDS Integers, Sequences, FiniteSets, TLC

----------------------------------------------------------------------------
(* Text primitives *)

UpperChars ==
  <<"A","B","C","D","E","F","G","H","I","J","K","L","M",
    "N","O","P","Q","R","S","T","U","V","W","X","Y","Z">>

LowerChars ==
  <<"a","b","c","d","e","f","g","h","i","j","k","l","m",
    "n","o","p","q","r","s","t","u","v","w","x","y","z">>

UpperSet == {UpperChars[i] : i \in 1..Len(UpperChars)}

\* the lower-case letter of each upper-case letter
LowerMap ==
  [c \in UpperSet |->
     LowerChars[CHOOSE i \in 1..Len(UpperChars) : UpperChars[i] = c]]

\* str.lower() on one character
LowerChar(c) == IF c \in UpperSet THEN LowerMap[c] ELSE c

\* str.lower()
Lower(s) == [i \in 1..Len(s) |-> LowerChar(s[i])]

\* p in s
Contains(s, p) ==
  \E i \in 0..(Len(s) - Len(p)) : \A j \in 1..Len(p) : s[i + j] = p[j]

\* s.startswith(p)
StartsWith(s, p) ==
  /\ Len(p) <= Len(s)
  /\ \A j \in 1..Len(p) : s[j] = p[j]

IsSpace(c) == c \in {" ", "\n", "\t", "\r"}

RECURSIVE LStrip(_)
LStrip(s) == IF s # <<>> /\ IsSpace(Head(s)) THEN LStrip(Tail(s)) ELSE s

RECURSIVE RStrip(_)
RStrip(s) ==
  IF s # <<>> /\ IsSpace(s[Len(s)]) THEN RStrip(SubSeq(s, 1, Len(s) - 1)) ELSE s

\* str.strip()
Strip(s) == RStrip(LStrip(s))

----------------------------------------------------------------------------
(* config.py *)

\* CONVERSATION_CONFIG["max_turns"]; config.py sets 50, the model runs the
\* same loop over a shorter range
max_turns == 4

max_conversation_time == 900

max_failed_interactions == 3

max_no_response_count == 2

EXIT_PHRASES ==
  << <<"g","o","o","d","b","y","e">>, <<"g","o","o","d"," ","b","y","e">>, <<"b","y","e">>, <<"b","y","e"," ","b","y","e">>,
     <<"t","h","a","t","'","s"," ","a","l","l">>, <<"t","h","a","t"," ","i","s"," ","a","l","l">>, <<"n","o","t","h","i","n","g"," ","e","l","s","e">>,
     <<"y","o","u","'","v","e"," ","h","e","l","p","e","d"," ","m","e">>, <<"p","r","o","b","l","e","m"," ","s","o","l","v","e","d">>, <<"a","l","l"," ","s","e","t">>,
     <<"t","r","a","n","s","f","e","r"," ","m","e">>, <<"h","u","m","a","n"," ","a","g","e","n","t">>, <<"s","p","e","a","k"," ","t","o"," ","s","o","m","e","o","n","e">>,
     <<"i","'","m"," ","d","o","n","e">>, <<"w","e","'","r","e"," ","d","o","n","e">>, <<"f","i","n","i","s","h","e","d">> >>

URGENT_PHRASES == << <<"e","m","e","r","g","e","n","c","y">>, <<"u","r","g","e","n","t">>, <<"c","r","i","t","i","c","a","l">> >>

----------------------------------------------------------------------------
(* Fixed texts of voicebot_main.py and agi_interface.py *)

FAREWELL_REPLY ==
  <<"T","h","a","n","k"," ","y","o","u"," ","f","o","r"," ","c","a","l","l","i","n","g"," ","N","E",
     "T","O","V","O","."," ","H","a","v","e"," ","a"," ","g","r","e","a","t"," ","d","a","y","!">>

ESCALATION_REPLY ==
  <<"I"," ","u","n","d","e","r","s","t","a","n","d"," ","t","h","i","s"," ","i","s"," ","u","r","g",
     "e","n","t","."," ","L","e","t"," ","m","e"," ","t","r","a","n","s","f","e","r"," ","y","o","u",
     " ","t","o"," ","o","u","r"," ","p","r","i","o","r","i","t","y"," ","s","u","p","p","o","r","t",
     " ","t","e","a","m"," ","i","m","m","e","d","i","a","t","e","l","y",".">>

ENDING_CALL_REPLY ==
  <<"I"," ","h","a","v","e","n","'","t"," ","h","e","a","r","d"," ","f","r","o","m"," ","y","o","u",
     " ","i","n"," ","o","u","r"," ","c","o","n","v","e","r","s","a","t","i","o","n","."," ","I","'",
     "l","l"," ","e","n","d"," ","t","h","i","s"," ","c","a","l","l"," ","n","o","w","."," ","T","h",
     "a","n","k"," ","y","o","u"," ","f","o","r"," ","c","a","l","l","i","n","g"," ","N","E","T","O",
     "V","O",".">>

HUMAN_AGENT_REPLY ==
  <<"I","'","m"," ","h","a","v","i","n","g"," ","t","r","o","u","b","l","e"," ","h","e","a","r","i",
     "n","g"," ","y","o","u"," ","c","l","e","a","r","l","y","."," ","L","e","t"," ","m","e"," ","t",
     "r","a","n","s","f","e","r"," ","y","o","u"," ","t","o"," ","a"," ","h","u","m","a","n"," ","a",
     "g","e","n","t"," ","w","h","o"," ","c","a","n"," ","b","e","t","t","e","r"," ","a","s","s","i",
     "s","t"," ","y","o","u",".">>

REPEAT_REPLY ==
  <<"I"," ","d","i","d","n","'","t"," ","c","a","t","c","h"," ","t","h","a","t","."," ","C","o","u",
     "l","d"," ","y","o","u"," ","s","p","e","a","k"," ","u","p"," ","o","r"," ","r","e","p","e","a",
     "t"," ","y","o","u","r"," ","q","u","e","s","t","i","o","n","?">>

OLLAMA_ERROR_REPLY ==
  <<"I","'","m"," ","h","a","v","i","n","g"," ","t","e","c","h","n","i","c","a","l"," ","d","i","f",
     "f","i","c","u","l","t","i","e","s","."," ","H","o","w"," ","e","l","s","e"," ","c","a","n"," ",
     "I"," ","h","e","l","p","?">>

CLOSING_THANKS == <<"t","h","a","n","k"," ","y","o","u"," ","f","o","r"," ","c","a","l","l","i","n","g">>

CLOSING_TRANSFER == <<"t","r","a","n","s","f","e","r"," ","y","o","u">>

VOICE_DETECTED == <<"V","O","I","C","E","_","D","E","T","E","C","T","E","D">>

ERROR_RESULT == <<"E","R","R","O","R">>

\* gates on the size of a captured file (bytes)
MONITOR_GATE == 400

RECORD_GATE == 800

----------------------------------------------------------------------------
(* What the environment can hand to the program *)

\* lines Asterisk can write in answer to a command ("" is end of input)
ResponseLines ==
  { <<"2","0","0"," ","r","e","s","u","l","t","=","0","\n">>, <<"2","0","0"," ","r","e","s","u","l","t","=","-","1","\n">>, <<"5","1","0"," ","I","n","v","a","l","i","d","\n">>,
    <<"H","A","N","G","U","P","\n">>, <<>> }

\* one command exchange: the write or the read raises, or a line is read
Exchanges ==
  {[raised |-> FALSE, line |-> l] : l \in ResponseLines}
    \cup {[raised |-> TRUE, line |-> <<>>]}

\* a capture tested against `gate`: no file written (-1), or a file of that
\* many bytes
FileSizes(gate) == {-1, 0, gate, gate + 1}

\* what DirectASRClient.transcribe_file can return ('' on any failure)
AsrTexts ==
  { <<>>, <<"o","k">>, <<"h","e","l","p">>, <<"G","o","o","d","b","y","e">>, <<"i","t"," ","i","s"," ","U","R","G","E","N","T">>, <<"u","r","g","e","n","t"," ","b","y","e">> }

\* what SimpleOllamaClient.generate can return
OllamaTexts ==
  { <<"T","r","y"," ","a"," ","r","e","s","t","a","r","t">>, <<"T","h","a","n","k"," ","y","o","u"," ","f","o","r"," ","c","a","l","l","i","n","g">>, OLLAMA_ERROR_REPLY }

\* seconds since start_time that time.time() can show at an evaluation
ElapsedSamples ==
  {0, max_conversation_time, max_conversation_time + 1}

ExitReasons ==
  {"user_exit", "ai_exit", "no_response", "failed_interactions", "timeout",
   "disconnected", "max_turns_reached"}

----------------------------------------------------------------------------
(* voicebot_main.py: pure parts of the dialogue controller *)

\* any(phrase in text.lower() for phrase in phrases)
AnyPhrase(text, phrases) ==
  \E k \in 1..Len(phrases) : Contains(Lower(text), phrases[k])

\* check_exit_conditions with the two counter tests in the other order
check_exit_conditions_FailedFirst(t, r, nrc, fi, el) ==
  IF t # <<>> /\ AnyPhrase(t, EXIT_PHRASES)
  THEN [should_exit |-> TRUE, exit_reason |-> "user_exit"]
  ELSE IF \/ Contains(Lower(r), CLOSING_THANKS)
          \/ Contains(Lower(r), CLOSING_TRANSFER)
  THEN [should_exit |-> TRUE, exit_reason |-> "ai_exit"]
  ELSE IF fi >= max_failed_interactions
  THEN [should_exit |-> TRUE, exit_reason |-> "failed_interactions"]
  ELSE IF nrc >= max_no_response_count
  THEN [should_exit |-> TRUE, exit_reason |-> "no_response"]
  ELSE IF el > max_conversation_time
  THEN [should_exit |-> TRUE, exit_reason |-> "timeout"]
  ELSE [should_exit |-> FALSE, exit_reason |-> "none"]

check_exit_conditions(t, r, nrc, fi, el) ==
  IF t # <<>> /\ AnyPhrase(t, EXIT_PHRASES)
  THEN [should_exit |-> TRUE, exit_reason |-> "user_exit"]
  ELSE IF \/ Contains(Lower(r), CLOSING_THANKS)
          \/ Contains(Lower(r), CLOSING_TRANSFER)
  THEN [should_exit |-> TRUE, exit_reason |-> "ai_exit"]
  ELSE IF nrc >= max_no_response_count
  THEN [should_exit |-> TRUE, exit_reason |-> "no_response"]
  ELSE IF fi >= max_failed_interactions
  THEN [should_exit |-> TRUE, exit_reason |-> "failed_interactions"]
  ELSE IF el > max_conversation_time
  THEN [should_exit |-> TRUE, exit_reason |-> "timeout"]
  ELSE [should_exit |-> FALSE, exit_reason |-> "none"]

\* TurnReply that forgets to reset failed_interactions on a transcript
TurnReply_KeepsFailed(t, nrc, fi, g) ==
  IF t # <<>>
  THEN [failed_interactions |-> fi,
        no_response_count |-> 0,
        response |-> IF AnyPhrase(t, EXIT_PHRASES) THEN FAREWELL_REPLY
                     ELSE IF AnyPhrase(t, URGENT_PHRASES) THEN ESCALATION_REPLY
                     ELSE g]
  ELSE [failed_interactions |-> fi + 1,
        no_response_count |-> nrc + 1,
        response |-> IF nrc + 1 >= 2 THEN ENDING_CALL_REPLY
                     ELSE IF fi + 1 >= 3 THEN HUMAN_AGENT_REPLY
                     ELSE REPEAT_REPLY]

\* conversation_loop, the branch on the listened transcript: the counters
\* and the reply (g is what ollama.generate returns if it is called)
TurnReply(t, nrc, fi, g) ==
  IF t # <<>>
  THEN [failed_interactions |-> 0,
        no_response_count |-> 0,
        response |-> IF AnyPhrase(t, EXIT_PHRASES) THEN FAREWELL_REPLY
                     ELSE IF AnyPhrase(t, URGENT_PHRASES) THEN ESCALATION_REPLY
                     ELSE g]
  ELSE [failed_interactions |-> fi + 1,
        no_response_count |-> nrc + 1,
        response |-> IF nrc + 1 >= 2 THEN ENDING_CALL_REPLY
                     ELSE IF fi + 1 >= 3 THEN HUMAN_AGENT_REPLY
                     ELSE REPEAT_REPLY]

----------------------------------------------------------------------------
(* agi_interface.py: pure parts of the protocol session and the recorders *)

\* command() that returns what it has read, also after a failure
CommandResult_NoSentinel(x) == Strip(x.line)

\* SimpleAGI.command: the value returned
CommandResult(x) == IF x.raised THEN ERROR_RESULT ELSE Strip(x.line)

\* a capture the filesystem can show after a RECORD FILE exchange: no file
\* (size -1), a file that has gone by the time os.path.getsize runs, or a
\* file of `size` bytes that ASR would decode to `text`
Captures(gate) ==
  {c \in [size : FileSizes(gate), gone : BOOLEAN, text : AsrTexts] :
     /\ c.gone => c.size >= 0 /\ c.text = <<>>
     /\ c.text # <<>> => c.size >= gate}

\* the hangup test that looks for the marker in lower case only
HangupDetected_CaseSensitive(res) ==
  \/ StartsWith(res, <<"2","0","0"," ","r","e","s","u","l","t","=","-","1">>)
  \/ Contains(res, <<"h","a","n","g","u","p">>)

\* SimpleAGI.command: the test "Detect hangup scenarios"
HangupDetected(res) ==
  \/ StartsWith(res, <<"2","0","0"," ","r","e","s","u","l","t","=","-","1">>)
  \/ Contains(Lower(res), <<"h","a","n","g","u","p">>)

\* command() that marks the session connected again on any other response
CommandConnected_Reconnects(conn, x) ==
  IF x.raised THEN FALSE
  ELSE IF HangupDetected(Strip(x.line)) THEN FALSE
  ELSE TRUE

\* SimpleAGI.command: self.connected after the exchange
CommandConnected(conn, x) ==
  IF x.raised THEN FALSE
  ELSE IF HangupDetected(Strip(x.line)) THEN FALSE
  ELSE conn

\* result and result.startswith('200')
PositiveStatus(res) == res # <<>> /\ StartsWith(res, <<"2","0","0">>)

\* Asterisk took the command: a positive status that is not the failure
\* result (play_with_voice_interrupt does not look at it)
PlayAccepted(res) ==
  PositiveStatus(res) /\ ~StartsWith(res, <<"2","0","0"," ","r","e","s","u","l","t","=","-","1">>)

\* hangup() that trusts the response to HANGUP
HangupConnected_FromResponse(conn, x) == CommandConnected(conn, x)

\* SimpleAGI.hangup: self.connected afterwards
HangupConnected(conn, x) == FALSE

\* answer() that takes any response but the error sentinel for a success
AnswerSuccess_NotError(res) == res # <<>> /\ res # ERROR_RESULT

\* SimpleAGI.answer: success
AnswerSuccess(res) == PositiveStatus(res)

\* the size tests without their gates
Transcribes_AnyFile(size, gate) == size >= 0

\* os.path.exists(wav_file) and file_size > gate: the captured file is
\* handed to asr.transcribe_file
Transcribes(size, gate) == size >= 0 /\ size > gate

\* SimpleAGI.play_with_voice_interrupt: the second component returned, for
\* a capture of `size` bytes that ASR decodes to `a`
PlayInterrupt(size, a) ==
  IF Transcribes(size, MONITOR_GATE)
  THEN IF a # <<>> /\ Len(Strip(a)) > 1 THEN a ELSE VOICE_DETECTED
  ELSE <<>>

\* FastInterruptRecorder.get_user_input_with_interrupt: the value returned,
\* conn being self.agi.connected after the RECORD FILE exchange
RecorderTranscript(conn, size, a) ==
  IF ~conn THEN <<>>
  ELSE IF Transcribes(size, RECORD_GATE) THEN Strip(a)
  ELSE <<>>

\* get_user_input_with_interrupt: the captured file is still on disk when
\* the call returns (the early return comes before the unlink)
RecorderLeaves(conn, size) == ~conn /\ size >= 0

\* get_user_input_with_interrupt: size of the file handed to ASR (-1: none)
RecorderAsrInput(conn, size) ==
  IF conn /\ Transcribes(size, RECORD_GATE) THEN size ELSE -1

\* command(): the exchange consumed the response line of its command
Answered(x) == ~x.raised /\ x.line # <<>>

----------------------------------------------------------------------------
(* voicebot_main.conversation_loop: how an iteration ends *)

\* a loop that does not advance: "while True" in place of the for statement
NextIteration_Unbounded(tn) == [loop_exit |-> "none", turn |-> tn]

\* the for statement: the next iteration, or the range is exhausted
NextIteration(tn) ==
  IF tn + 1 < max_turns
  THEN [loop_exit |-> "none", turn |-> tn + 1]
  ELSE [loop_exit |-> "max_turns_reached", turn |-> tn]

\* an iteration that ends the loop whenever it was not interrupted
TurnEnd_UninterruptedEnds(itr, conn, se, er, tn) ==
  IF itr # <<>> THEN NextIteration(tn)
  ELSE [loop_exit |-> IF se THEN er ELSE "disconnected", turn |-> tn]

\* the tail of an iteration, from "if interrupt_transcript:" to agi.sleep(1)
TurnEnd(itr, conn, se, er, tn) ==
  IF itr # <<>> THEN NextIteration(tn)
  ELSE IF se THEN [loop_exit |-> er, turn |-> tn]
  ELSE IF ~conn THEN [loop_exit |-> "disconnected", turn |-> tn]
  ELSE NextIteration(tn)

\* the branch on what play_with_voice_interrupt returned
InterruptTranscript(intr) == IF Len(intr) > 2 THEN intr ELSE <<>>

NeedsRelisten(intr) == intr # <<>> /\ ~(Len(intr) > 2)

\* conversation_loop: the argument of ollama.generate(transcript) in the
\* branch on the listened transcript (<<>>: it is not called)
TurnPrompt(t) ==
  IF t # <<>> /\ ~AnyPhrase(t, EXIT_PHRASES) /\ ~AnyPhrase(t, URGENT_PHRASES)
  THEN t ELSE <<>>

\* no session operation has been run on its own
NoIO == [op |-> "none", x |-> [raised |-> FALSE, line |-> <<>>],
         result |-> <<>>, success |-> FALSE, written |-> 0, n |-> 0]

----------------------------------------------------------------------------
VARIABLES
  pc,                  \* where main() is
  phase,               \* "setup", "greeting", "loop", "ended"
  errorAt,             \* phase in which an unexpected error was raised
  session,             \* number of SimpleAGI objects constructed
  connected,           \* SimpleAGI.connected of the current session
  call_answered,       \* SimpleAGI.call_answered of the current session
  lastCmd,             \* the last command written
  hangups,             \* number of HANGUP commands written
  turn,                \* conversation_loop: turn
  failed_interactions,
  no_response_count,
  elapsed,             \* time.time() - start_time at the last evaluation
  transcript,
  response,
  should_exit,
  exit_reason,
  interrupt,           \* what play_with_voice_interrupt returned in this
                       \* iteration (<<>> before it has returned)
  interrupt_transcript,
  file_size,           \* size of the file of the latest recording (-1: none)
  loop_exit,           \* why the turn loop ended ("none" while it has not)
  prompt,              \* argument of the iteration's latest ollama.generate
  asr_input,           \* size of the file the latest step gave to ASR (-1)
  scratch,             \* the file of the latest recording is on disk
  in_step,             \* every command written had its response line read
  io,                  \* the latest session operation run on its own
  converted_left,      \* a converted playback file of this call is on disk
  play_ok,             \* the delivery's EXEC Background got a positive status
  voice_type,          \* what determine_voice_type returned, run on its own
  conversation_history,\* SimpleOllamaClient.conversation_history
  generate_calls       \* number of ollama.generate calls made on its own

vars ==
  <<pc, phase, errorAt, session, connected, call_answered, lastCmd, hangups,
    turn, failed_interactions, no_response_count, elapsed, transcript,
    response, should_exit, exit_reason, interrupt, interrupt_transcript,
    file_size, loop_exit, prompt, asr_input, scratch, in_step, io,
    converted_left, play_ok, voice_type, conversation_history,
    generate_calls>>

\* what only the components run on their own change
ownVars == <<voice_type, conversation_history, generate_calls>>

sessionVars == <<session, connected, call_answered>>

loopVars ==
  <<turn, failed_interactions, no_response_count, elapsed, transcript,
    response, should_exit, exit_reason, interrupt, interrupt_transcript,
    file_size, loop_exit, prompt>>

\* what the steps observe of the recordings
recVars == <<asr_input, scratch>>

turnVars == <<transcript, response, should_exit, exit_reason>>

Init ==
  /\ pc = "new"
  /\ phase = "setup"
  /\ errorAt = "none"
  /\ session = 0
  /\ connected = FALSE
  /\ call_answered = FALSE
  /\ lastCmd = "none"
  /\ hangups = 0
  /\ turn = 0
  /\ failed_interactions = 0
  /\ no_response_count = 0
  /\ elapsed = 0
  /\ transcript = <<>>
  /\ response = <<>>
  /\ should_exit = FALSE
  /\ exit_reason = "none"
  /\ interrupt = <<>>
  /\ interrupt_transcript = <<>>
  /\ file_size = -1
  /\ loop_exit = "none"
  /\ prompt = <<>>
  /\ asr_input = -1
  /\ scratch = FALSE
  /\ in_step = TRUE
  /\ io = NoIO
  /\ converted_left = FALSE
  /\ play_ok = TRUE
  /\ voice_type = "none"
  /\ conversation_history = <<>>
  /\ generate_calls = 0

\* SimpleAGI.command(name) with the exchange x
Command(name, x) ==
  /\ lastCmd' = name
  /\ connected' = CommandConnected(connected, x)
  /\ in_step' = (in_step /\ Answered(x))

\* SimpleAGI.answer() with the exchange x
AnswerCall(x) ==
  /\ Command("ANSWER", x)
  /\ call_answered' =
       IF AnswerSuccess(CommandResult(x)) THEN TRUE ELSE call_answered

\* SimpleAGI.hangup() with the exchange x
HangupCall(x) ==
  /\ lastCmd' = "HANGUP"
  /\ connected' = HangupConnected(connected, x)
  /\ in_step' = (in_step /\ Answered(x))
  /\ hangups' = hangups + 1

\* an exception leaves handle_greeting or conversation_loop (their locals
\* go with their frames) and reaches main()'s except clause
Raise ==
  /\ errorAt' = phase
  /\ pc' = "new"
  /\ turn' = 0
  /\ failed_interactions' = 0
  /\ no_response_count' = 0
  /\ elapsed' = 0
  /\ transcript' = <<>>
  /\ response' = <<>>
  /\ should_exit' = FALSE
  /\ exit_reason' = "none"
  /\ interrupt' = <<>>
  /\ interrupt_transcript' = <<>>
  /\ file_size' = -1
  /\ loop_exit' = "none"
  /\ prompt' = <<>>
  /\ asr_input' = -1
  /\ scratch' = FALSE
  /\ play_ok' = TRUE
  /\ UNCHANGED phase

\* conversation_loop is entered: its first lines; gt is handle_greeting's
\* greeting_transcript, which it has handed to ollama.generate if not empty
EnterLoop(gt) ==
  /\ phase' = "loop"
  /\ pc' = "listen"
  /\ turn' = 0
  /\ failed_interactions' = 0
  /\ no_response_count' = 0
  /\ elapsed' = 0
  /\ transcript' = <<>>
  /\ response' = <<>>
  /\ should_exit' = FALSE
  /\ exit_reason' = "none"
  /\ interrupt' = <<>>
  /\ interrupt_transcript' = <<>>
  /\ loop_exit' = "none"
  /\ prompt' = gt

\* main() returning after conversation_loop without the hangup
AfterLoop_Returns == "done"

\* main(): what follows the return of conversation_loop ("End call")
AfterLoop == "hangup"

\* the iteration ends with interrupt_transcript = itr and transcript = tr
\* (a non-empty itr has been handed to ollama.generate); when another
\* iteration follows, the locals it overwrites before it reads them are
\* cleared
FinishTurn(itr, conn, tr) ==
  LET e == TurnEnd(itr, conn, should_exit, exit_reason, turn) IN
  /\ loop_exit' = e.loop_exit
  /\ turn' = e.turn
  /\ prompt' = IF itr # <<>> THEN itr
               ELSE IF e.loop_exit = "none" THEN <<>> ELSE prompt
  /\ IF e.loop_exit = "none"
     THEN /\ pc' = "listen"
          /\ phase' = "loop"
          /\ transcript' = <<>>
          /\ response' = <<>>
          /\ should_exit' = FALSE
          /\ exit_reason' = "none"
          /\ interrupt_transcript' = <<>>
     ELSE /\ pc' = AfterLoop
          /\ phase' = "ended"
          /\ transcript' = tr
          /\ interrupt_transcript' = itr
          /\ UNCHANGED <<response, should_exit, exit_reason>>
  /\ UNCHANGED <<failed_interactions, no_response_count, elapsed>>

\* control returns from play_with_voice_interrupt with `intr`
AfterPlay(intr, conn) ==
  /\ IF phase = "greeting" THEN EnterLoop(InterruptTranscript(intr))
     ELSE IF NeedsRelisten(intr)
     THEN /\ pc' = "relisten"
          /\ interrupt' = intr
          /\ UNCHANGED <<phase, turn, failed_interactions, no_response_count,
                         elapsed, interrupt_transcript, loop_exit, prompt>>
          /\ UNCHANGED turnVars
     ELSE /\ interrupt' = intr
          /\ FinishTurn(InterruptTranscript(intr), conn, transcript)

----------------------------------------------------------------------------
(* Steps of main() *)

\* agi = SimpleAGI(): __init__ and _parse_env, whose readline may raise
NewSession ==
  /\ pc = "new"
  /\ session' = session + 1
  /\ connected' = TRUE
  /\ call_answered' = FALSE
  /\ \E raised \in BOOLEAN :
       IF ~raised
       THEN /\ pc' = "answer"
            /\ UNCHANGED <<phase, errorAt, play_ok>>
            /\ UNCHANGED loopVars
            /\ UNCHANGED recVars
       ELSE IF errorAt = "none" THEN Raise
       ELSE /\ pc' = "cleanup_failed"
            /\ UNCHANGED <<phase, errorAt, play_ok>>
            /\ UNCHANGED loopVars
            /\ UNCHANGED recVars
  /\ UNCHANGED <<lastCmd, hangups, in_step, io>>
  /\ UNCHANGED converted_left
  /\ UNCHANGED ownVars

\* agi.answer()
Answer ==
  /\ pc = "answer"
  /\ \E x \in Exchanges :
       /\ AnswerCall(x)
       /\ pc' = IF errorAt # "none" \/ AnswerSuccess(CommandResult(x))
                THEN "verbose" ELSE "done"
  /\ UNCHANGED <<phase, errorAt, session, hangups, io>>
  /\ UNCHANGED loopVars
  /\ UNCHANGED recVars
  /\ UNCHANGED <<converted_left, play_ok>>
  /\ UNCHANGED ownVars

\* agi.verbose(...)
Verbose ==
  /\ pc = "verbose"
  /\ \E x \in Exchanges : Command("VERBOSE", x)
  /\ IF errorAt = "none"
     THEN pc' = "greet" /\ phase' = "greeting"
     ELSE pc' = "hangup" /\ UNCHANGED phase
  /\ UNCHANGED <<errorAt, session, call_answered, hangups, io>>
  /\ UNCHANGED loopVars
  /\ UNCHANGED recVars
  /\ UNCHANGED <<converted_left, play_ok>>
  /\ UNCHANGED ownVars

\* handle_greeting: synthesize and convert the welcome
Greet ==
  /\ pc = "greet"
  /\ \E playable \in BOOLEAN :
       /\ pc' = IF playable THEN "bg" ELSE "fallback"
       /\ converted_left' = (converted_left \/ playable)
  /\ UNCHANGED <<phase, errorAt, lastCmd, hangups, in_step, io>>
  /\ UNCHANGED sessionVars
  /\ UNCHANGED loopVars
  /\ UNCHANGED recVars
  /\ UNCHANGED play_ok
  /\ UNCHANGED ownVars

\* play_with_voice_interrupt: EXEC Background
PlayBackground ==
  /\ pc = "bg"
  /\ \E x \in Exchanges :
       /\ Command("EXEC Background", x)
       /\ play_ok' = PlayAccepted(CommandResult(x))
  /\ pc' = "monitor"
  /\ UNCHANGED <<phase, errorAt, session, call_answered, hangups, io>>
  /\ UNCHANGED loopVars
  /\ UNCHANGED recVars
  /\ UNCHANGED converted_left
  /\ UNCHANGED ownVars

\* play_with_voice_interrupt: the monitor recording and the size test
Monitor ==
  /\ pc = "monitor"
  /\ \E x \in Exchanges, c \in Captures(MONITOR_GATE) :
       /\ c.text = <<>>
       /\ Command("RECORD FILE monitor", x)
       /\ IF c.gone THEN Raise
          ELSE IF Transcribes(c.size, MONITOR_GATE)
          THEN /\ pc' = "stop"
               /\ file_size' = c.size
               /\ scratch' = TRUE
               /\ UNCHANGED play_ok
               /\ asr_input' = -1
               /\ UNCHANGED <<phase, errorAt, turn, failed_interactions,
                              no_response_count, elapsed, interrupt,
                              interrupt_transcript, loop_exit, prompt>>
               /\ UNCHANGED turnVars
          ELSE /\ AfterPlay(PlayInterrupt(c.size, <<>>),
                            CommandConnected(connected, x))
               /\ file_size' = c.size
               /\ scratch' = FALSE
               /\ asr_input' = -1
               /\ play_ok' = TRUE
               /\ UNCHANGED errorAt
  /\ UNCHANGED <<session, call_answered, hangups, io>>
  /\ UNCHANGED converted_left
  /\ UNCHANGED ownVars

\* play_with_voice_interrupt: speech was captured: EXEC StopPlayback,
\* transcription of the capture, unlink
StopPlayback ==
  /\ pc = "stop"
  /\ \E x \in Exchanges, a \in AsrTexts :
       /\ Command("EXEC StopPlayback", x)
       /\ AfterPlay(PlayInterrupt(file_size, a), CommandConnected(connected, x))
  /\ asr_input' = file_size
  /\ scratch' = FALSE
  /\ play_ok' = TRUE
  /\ UNCHANGED <<errorAt, session, call_answered, hangups, file_size, io>>
  /\ UNCHANGED converted_left
  /\ UNCHANGED ownVars

\* agi.stream_file("demo-thanks")
Fallback ==
  /\ pc = "fallback"
  /\ \E x \in Exchanges :
       /\ Command("STREAM FILE", x)
       /\ IF phase = "greeting" THEN EnterLoop(<<>>)
          ELSE /\ FinishTurn(<<>>, CommandConnected(connected, x), transcript)
               /\ UNCHANGED interrupt
  /\ UNCHANGED <<errorAt, session, call_answered, hangups, file_size, io>>
  /\ UNCHANGED recVars
  /\ UNCHANGED <<converted_left, play_ok>>
  /\ UNCHANGED ownVars

\* conversation_loop: recorder.get_user_input_with_interrupt(input_timeout)
\* and the test of agi.connected that follows it
Listen ==
  /\ pc = "listen"
  /\ \E x \in Exchanges, c \in Captures(RECORD_GATE) :
       LET conn == CommandConnected(connected, x) IN
       /\ Command("RECORD FILE input", x)
       /\ IF conn /\ c.gone THEN Raise
          ELSE /\ transcript' = RecorderTranscript(conn, c.size, c.text)
               /\ file_size' = c.size
               /\ asr_input' = RecorderAsrInput(conn, c.size)
               /\ scratch' = RecorderLeaves(conn, c.size)
               /\ interrupt' = <<>>
               /\ prompt' = <<>>
               /\ IF ~conn
                  THEN /\ loop_exit' = "disconnected"
                       /\ pc' = AfterLoop
                       /\ phase' = "ended"
                  ELSE /\ pc' = "respond"
                       /\ UNCHANGED <<phase, loop_exit>>
               /\ UNCHANGED <<errorAt, turn, failed_interactions,
                              no_response_count, elapsed, response,
                              should_exit, exit_reason,
                              interrupt_transcript>>
  /\ UNCHANGED <<session, call_answered, hangups, io>>
  /\ UNCHANGED <<converted_left, play_ok>>
  /\ UNCHANGED ownVars

\* conversation_loop: the reply, check_exit_conditions, synthesis and
\* conversion of the reply
Respond ==
  /\ pc = "respond"
  /\ \E g \in OllamaTexts, el \in ElapsedSamples, playable \in BOOLEAN :
       LET d == TurnReply(transcript, no_response_count, failed_interactions, g)
       IN
       /\ el >= elapsed
       /\ elapsed' = el
       /\ pc' = IF playable THEN "bg" ELSE "fallback"
       /\ converted_left' = (converted_left \/ playable)
       /\ failed_interactions' = d.failed_interactions
       /\ no_response_count' = d.no_response_count
       /\ response' = d.response
       \* check_exit_conditions is called with the locals just assigned
       /\ should_exit' =
            check_exit_conditions(transcript, response', no_response_count',
                                  failed_interactions', el).should_exit
       /\ exit_reason' =
            check_exit_conditions(transcript, response', no_response_count',
                                  failed_interactions', el).exit_reason
  /\ prompt' = TurnPrompt(transcript)
  /\ asr_input' = -1
  /\ file_size' = -1
  /\ UNCHANGED <<phase, errorAt, lastCmd, hangups, turn, transcript,
                 interrupt, interrupt_transcript, loop_exit,
                 scratch, in_step, io>>
  /\ UNCHANGED sessionVars
  /\ UNCHANGED play_ok
  /\ UNCHANGED ownVars

\* conversation_loop: recorder.get_user_input_with_interrupt(timeout=8)
\* after a barge-in without a usable transcript
Relisten ==
  /\ pc = "relisten"
  /\ \E x \in Exchanges, c \in Captures(RECORD_GATE) :
       LET conn == CommandConnected(connected, x) IN
       /\ Command("RECORD FILE again", x)
       /\ IF conn /\ c.gone THEN Raise
          ELSE /\ FinishTurn(RecorderTranscript(conn, c.size, c.text), conn,
                               RecorderTranscript(conn, c.size, c.text))
               /\ file_size' = c.size
               /\ asr_input' = RecorderAsrInput(conn, c.size)
               /\ scratch' = RecorderLeaves(conn, c.size)
               /\ UNCHANGED <<errorAt, interrupt>>
  /\ UNCHANGED <<session, call_answered, hangups, io>>
  /\ UNCHANGED <<converted_left, play_ok>>
  /\ UNCHANGED ownVars

\* agi.sleep(1); agi.hangup()
Hangup ==
  /\ pc = "hangup"
  /\ \E x \in Exchanges : HangupCall(x)
  /\ pc' = "done"
  /\ UNCHANGED <<phase, errorAt, session, call_answered, io>>
  /\ UNCHANGED loopVars
  /\ UNCHANGED recVars
  /\ UNCHANGED <<converted_left, play_ok>>
  /\ UNCHANGED ownVars

Next ==
  \/ NewSession
  \/ Answer
  \/ Verbose
  \/ Greet
  \/ PlayBackground
  \/ Monitor
  \/ StopPlayback
  \/ Fallback
  \/ Listen
  \/ Respond
  \/ Relisten
  \/ Hangup

Spec == Init /\ [][Next]_vars

----------------------------------------------------------------------------
(* check_exit_conditions on its own: every combination of arguments *)

\* largest counter value handed to check_exit_conditions
MaxCount == 4

InitExit ==
  /\ pc = "check"
  /\ phase = "loop"
  /\ errorAt = "none"
  /\ session = 1
  /\ connected = TRUE
  /\ call_answered = TRUE
  /\ lastCmd = "none"
  /\ hangups = 0
  /\ turn = 0
  /\ failed_interactions \in 0..MaxCount
  /\ no_response_count \in 0..MaxCount
  /\ elapsed \in ElapsedSamples
  /\ transcript \in AsrTexts
  /\ response \in OllamaTexts \cup {FAREWELL_REPLY, REPEAT_REPLY}
  /\ should_exit = FALSE
  /\ exit_reason = "none"
  /\ interrupt = <<>>
  /\ interrupt_transcript = <<>>
  /\ file_size = -1
  /\ loop_exit = "none"
  /\ prompt = <<>>
  /\ asr_input = -1
  /\ scratch = FALSE
  /\ in_step = TRUE
  /\ io = NoIO
  /\ converted_left = FALSE
  /\ play_ok = TRUE
  /\ voice_type = "none"
  /\ conversation_history = <<>>
  /\ generate_calls = 0

CheckExit ==
  /\ pc = "check"
  /\ LET c == check_exit_conditions(transcript, response, no_response_count,
                                    failed_interactions, elapsed)
     IN /\ should_exit' = c.should_exit
        /\ exit_reason' = c.exit_reason
  /\ pc' = "checked"
  /\ UNCHANGED <<phase, errorAt, lastCmd, hangups, turn, failed_interactions,
                 no_response_count, elapsed, transcript, response, interrupt,
                 interrupt_transcript, file_size, loop_exit, prompt,
                 in_step, io>>
  /\ UNCHANGED sessionVars
  /\ UNCHANGED recVars
  /\ UNCHANGED <<converted_left, play_ok>>
  /\ UNCHANGED ownVars

SpecExit == InitExit /\ [][CheckExit]_vars

----------------------------------------------------------------------------
(* The protocol session on its own: command(), answer() and hangup() called
   in any order on a session in any state *)

\* number of operations called on the session
MaxOps == 2

\* the commands main() sends through command() directly
CommandNames == {"VERBOSE", "STREAM FILE"}

\* response lines as Asterisk words them, with and without a hangup marker
SessionLines ==
  ResponseLines \cup
    { <<"2","0","0"," ","r","e","s","u","l","t","=","0"," ","(","H","a","n","g","U","p",")","\n">>, <<" ","2","0","0"," ","r","e","s","u","l","t","=","-","1"," ","(","h","a","n","g","u","p",")","\n">>,
      <<"2","0","0"," ","r","e","s","u","l","t","=","0"," ","(","t","i","m","e","o","u","t",")","\n">>, <<"5","2","0"," ","E","n","d"," ","o","f"," ","p","r","o","p","e","r"," ","u","s","a","g","e","\n">> }

SessionExchanges ==
  {[raised |-> FALSE, line |-> l] : l \in SessionLines}
    \cup {[raised |-> TRUE, line |-> <<>>]}

InitSession ==
  /\ pc = "session"
  /\ phase = "setup"
  /\ errorAt = "none"
  /\ session = 1
  /\ connected \in BOOLEAN
  /\ call_answered \in BOOLEAN
  /\ lastCmd = "none"
  /\ hangups = 0
  /\ turn = 0
  /\ failed_interactions = 0
  /\ no_response_count = 0
  /\ elapsed = 0
  /\ transcript = <<>>
  /\ response = <<>>
  /\ should_exit = FALSE
  /\ exit_reason = "none"
  /\ interrupt = <<>>
  /\ interrupt_transcript = <<>>
  /\ file_size = -1
  /\ loop_exit = "none"
  /\ prompt = <<>>
  /\ asr_input = -1
  /\ scratch = FALSE
  /\ in_step = TRUE
  /\ io = NoIO
  /\ converted_left = FALSE
  /\ play_ok = TRUE
  /\ voice_type = "none"
  /\ conversation_history = <<>>
  /\ generate_calls = 0

\* what the operation `op` with the exchange x leaves in io
Called(op, x) ==
  io' = [op |-> op, x |-> x, result |-> CommandResult(x),
         success |-> (op = "answer" /\ AnswerSuccess(CommandResult(x))),
         written |-> 1, n |-> io.n + 1]

\* agi.command(cmd)
SendCommand ==
  /\ pc = "session"
  /\ io.n < MaxOps
  /\ \E name \in CommandNames, x \in SessionExchanges :
       /\ Command(name, x)
       /\ Called("command", x)
  /\ UNCHANGED <<pc, phase, errorAt, session, call_answered, hangups>>
  /\ UNCHANGED loopVars
  /\ UNCHANGED recVars
  /\ UNCHANGED <<converted_left, play_ok>>
  /\ UNCHANGED ownVars

\* agi.answer()
DoAnswer ==
  /\ pc = "session"
  /\ io.n < MaxOps
  /\ \E x \in SessionExchanges :
       /\ AnswerCall(x)
       /\ Called("answer", x)
  /\ UNCHANGED <<pc, phase, errorAt, session, hangups>>
  /\ UNCHANGED loopVars
  /\ UNCHANGED recVars
  /\ UNCHANGED <<converted_left, play_ok>>
  /\ UNCHANGED ownVars

\* agi.hangup()
DoHangup ==
  /\ pc = "session"
  /\ io.n < MaxOps
  /\ \E x \in SessionExchanges :
       /\ HangupCall(x)
       /\ Called("hangup", x)
  /\ UNCHANGED <<pc, phase, errorAt, session, call_answered>>
  /\ UNCHANGED loopVars
  /\ UNCHANGED recVars
  /\ UNCHANGED <<converted_left, play_ok>>
  /\ UNCHANGED ownVars

NextSession == SendCommand \/ DoAnswer \/ DoHangup

SpecSession == InitSession /\ [][NextSession]_vars

----------------------------------------------------------------------------
(* Properties *)

\* the dialogue (greeting or turn loop) was entered
DialogueStarted == phase \in {"greeting", "loop", "ended"}

\* main() has returned
Returned == pc \in {"done", "cleanup_failed"}

\* the current iteration has chosen its reply and evaluated the exit
\* conditions, and its delivery is under way or the loop has just ended
Evaluated == phase \in {"loop", "ended"} /\ response # <<>>

\* the current iteration is delivering its reply
Delivering ==
  phase = "loop" /\ pc \in {"bg", "monitor", "stop", "relisten", "fallback"}

PlayRecordCmds ==
  {"EXEC Background", "RECORD FILE monitor", "RECORD FILE input",
   "RECORD FILE again", "STREAM FILE", "EXEC StopPlayback"}

\* C1: within one protocol session, once connected is false no later step
\* sets it back to true
C1_ConnectedStaysFalse ==
  [][(session' = session /\ ~connected) => ~connected']_vars

\* the session lost the connection and a later command has been exchanged
C1_Witness ==
  session = 1 /\ ~connected /\ phase = "loop" /\ pc = "relisten"

C3_NoCommandAfterDisconnect ==
  [][(Delivering /\ ~connected) =>
       /\ lastCmd' \notin PlayRecordCmds \ {lastCmd}
       /\ phase' = "ended"
       /\ loop_exit' = "disconnected"
       /\ errorAt' = errorAt]_vars

\* C4 as stated: a turn whose evaluation yields a reason is the last one: no
\* further Listening starts after it
C4_ExitAfterEveryTurn ==
  [][(phase = "loop" /\ should_exit) => pc' # "listen"]_vars

\* C5 as stated: the reason of an evaluation is no_response exactly when
\* no_response_count has reached 2, and the reply is then the ending-call text
C5_NoResponseReason ==
  Evaluated =>
    /\ (exit_reason = "no_response") <=>
         (no_response_count >= max_no_response_count)
    /\ no_response_count >= max_no_response_count =>
         response = ENDING_CALL_REPLY

\* C6: check_exit_conditions gives failed_interactions only for
\* failed_interactions >= 3 and no_response_count < 2
C6_FailedInteractionsOnlyBelowNoResponse ==
  exit_reason = "failed_interactions" =>
    (failed_interactions >= 3 /\ no_response_count < 2)

\* check_exit_conditions has returned failed_interactions
C6_Witness ==
  pc = "checked" /\ exit_reason = "failed_interactions"

\* the counters change as TurnReply says where the reply is chosen, and
\* nowhere else in the loop
CountersFollowTranscript ==
  /\ pc = "respond" =>
       IF transcript = <<>>
       THEN /\ failed_interactions' = failed_interactions + 1
            /\ no_response_count' = no_response_count + 1
       ELSE /\ failed_interactions' = 0
            /\ no_response_count' = 0
  /\ (pc # "respond" /\ phase = "loop" /\ errorAt' = errorAt) =>
       UNCHANGED <<failed_interactions, no_response_count>>

\* C7 as stated: every turn's listened transcript is counted (the listen is
\* followed by the step that counts it), as CountersFollowTranscript says
C7_EveryTurnCounted ==
  [][/\ CountersFollowTranscript
     /\ (pc = "listen" /\ errorAt' = errorAt) => pc' = "respond"]_vars

\* C7 amended: every turn whose listen leaves the session connected counts
\* its listened transcript (empty: both counters + 1, else both 0); a listen
\* that finds the session disconnected ends the loop with the counters
\* untouched; no other step of the loop changes them
C7_ConnectedTurnsCounted ==
  [][/\ CountersFollowTranscript
     /\ (pc = "listen" /\ errorAt' = errorAt) =>
          \/ pc' = "respond" /\ connected'
          \/ /\ ~connected'
             /\ phase' = "ended"
             /\ UNCHANGED <<failed_interactions, no_response_count>>]_vars

\* two empty transcripts in a row have been counted
C7_Witness ==
  phase = "loop" /\ no_response_count = 2 /\ failed_interactions = 2

\* C8 as stated: when the loop ends the reason is the first that applies of
\* disconnected, the turn's evaluated reason, max_turns_reached
C8_FirstReasonWins ==
  (phase = "ended" /\ pc = "hangup") =>
    loop_exit = IF ~connected THEN "disconnected"
                ELSE IF should_exit THEN exit_reason
                ELSE "max_turns_reached"

\* C9 as stated: timeout needs elapsed > maximum; elapsed > maximum ends the
\* call whatever the counters are; and a loop whose last evaluation saw
\* elapsed > maximum does not end as max_turns_reached
C9_TimeoutFires ==
  Evaluated =>
    /\ exit_reason = "timeout" => elapsed > max_conversation_time
    /\ elapsed > max_conversation_time => should_exit
    /\ (phase = "ended" /\ elapsed > max_conversation_time) =>
         loop_exit # "max_turns_reached"

\* C10 as stated: while a turn whose listened transcript has an exit phrase
\* delivers its reply, the reply is the farewell, the reason is user_exit,
\* and no step starts another Listening
C10_GoodbyeEndsCall ==
  [][(Delivering /\ AnyPhrase(transcript, EXIT_PHRASES)) =>
       /\ response = FAREWELL_REPLY
       /\ exit_reason = "user_exit"
       /\ pc' # "listen"]_vars

\* the iteration's play_with_voice_interrupt has just returned `interrupt`
\* (no error was raised in the step) and the session is connected
PlayReturned ==
  /\ phase = "loop"
  /\ pc \in {"monitor", "stop"}
  /\ pc' \notin {"monitor", "stop"}
  /\ errorAt' = errorAt
  /\ connected'

\* C11 as stated: while a turn whose listened transcript has an urgency
\* phrase and no exit phrase delivers its reply on a connected session, the
\* reply is the escalation text, the reason is ai_exit, and no step starts
\* another Listening
C11_UrgentEndsCall ==
  [][(/\ Delivering
      /\ connected
      /\ connected'
      /\ AnyPhrase(transcript, URGENT_PHRASES)
      /\ ~AnyPhrase(transcript, EXIT_PHRASES)) =>
       /\ response = ESCALATION_REPLY
       /\ exit_reason = "ai_exit"
       /\ should_exit
       /\ pc' # "listen"]_vars

\* C12 as stated: when play_with_voice_interrupt returns a transcript that
\* is not the sentinel, a reply is generated from it and its delivery starts
\* before any other recording
C12_InterruptionAnswered ==
  [][(PlayReturned /\ interrupt' # <<>> /\ interrupt' # VOICE_DETECTED) =>
       /\ prompt' = interrupt'
       /\ pc' \in {"bg", "fallback"}]_vars

\* C13 as stated: when play_with_voice_interrupt returns the sentinel, the
\* additional listen follows and the sentinel is not handed to
\* ollama.generate
C13_SentinelRelistens ==
  [][(PlayReturned /\ interrupt' = VOICE_DETECTED) =>
       /\ pc' = "relisten"
       /\ prompt' # VOICE_DETECTED]_vars

\* C14 as stated: whenever control is with the dialogue controller (outside
\* play_with_voice_interrupt) the file of the latest recording is not on disk
C14_NoScratchLeft == pc # "stop" => ~scratch

\* the latest command belongs to the barge-in player's recording
PlayerRecorded == lastCmd \in {"RECORD FILE monitor", "EXEC StopPlayback"}

\* the latest command is a recording of the turn input collector
CollectorRecorded == lastCmd \in {"RECORD FILE input", "RECORD FILE again"}

\* the gate of the component that made the latest recording
LatestGate == IF PlayerRecorded THEN MONITOR_GATE ELSE RECORD_GATE

\* C15: right after a recording of the player or of the collector, a file
\* handed to ASR is the captured file and is not smaller than the
\* component's gate; after a capture smaller than the gate nothing was handed
\* to ASR and the operation reported no speech (no interruption from the
\* player, no transcript from the collector)
C15_GateBeforeAsr ==
  (PlayerRecorded \/ CollectorRecorded) =>
    /\ asr_input # -1 => (asr_input = file_size /\ file_size >= LatestGate)
    /\ (0 <= file_size /\ file_size < LatestGate) =>
         /\ asr_input = -1
         /\ PlayerRecorded => interrupt = <<>>
         /\ (lastCmd = "RECORD FILE input" /\ pc = "respond") =>
              transcript = <<>>
         /\ (lastCmd = "RECORD FILE again" /\ pc = "listen") => prompt = <<>>

\* the collector has returned from a capture smaller than its gate
C15_Witness ==
  /\ lastCmd = "RECORD FILE input"
  /\ pc = "respond"
  /\ file_size = 0
  /\ asr_input = -1
  /\ transcript = <<>>

\* C18 as stated: a command is written only when every command written
\* before it has had its response line read
C18_StrictAlternation ==
  [][~in_step => (lastCmd' = lastCmd /\ hangups' = hangups)]_vars

\* a session operation has just been called with an exchange
OpCalled == io'.n = io.n + 1

\* the response returned begins with the failure result code or holds a
\* hangup marker in any letter case
FailureOrHangup(res) ==
  \/ StartsWith(res, <<"2","0","0"," ","r","e","s","u","l","t","=","-","1">>)
  \/ Contains(Lower(res), <<"h","a","n","g","u","p">>)

\* C16: after command() has read a response, connected is false if the
\* response begins with '200 result=-1' or holds a hangup marker in any
\* letter case; after any other response connected and call_answered are
\* what they were
C16_HangupResponsesDisconnect ==
  [][(OpCalled /\ io'.op = "command" /\ ~io'.x.raised) =>
       IF FailureOrHangup(io'.result)
       THEN ~connected'
       ELSE connected' = connected /\ call_answered' = call_answered]_vars

\* command() has read a hangup marker in mixed case on a connected session
C16_Witness ==
  /\ io.op = "command"
  /\ io.result = <<"2","0","0"," ","r","e","s","u","l","t","=","0"," ","(","H","a","n","g","U","p",")">>
  /\ ~connected

\* C17: an operation whose write or read fails returns to its caller
\* (nothing is raised), with connected false and, from command(), the
\* sentinel "ERROR"; the command was written once
C17_IoFailureIsDisconnect ==
  [][(OpCalled /\ io'.x.raised) =>
       /\ ~connected'
       /\ io'.result = ERROR_RESULT
       /\ io'.written = 1
       /\ errorAt' = errorAt
       /\ pc' = pc]_vars

\* command() has failed on a session that was connected
C17_Witness ==
  /\ io.op = "command"
  /\ io.x.raised
  /\ io.result = ERROR_RESULT
  /\ ~connected

\* C19: answer() succeeds exactly when the response begins with "200";
\* call_answered is true after a success and unchanged after a failure, and
\* command() and hangup() leave it alone
C19_AnsweredOnlyBySuccess ==
  [][OpCalled =>
       IF io'.op = "answer"
       THEN /\ io'.success <=> StartsWith(io'.result, <<"2","0","0">>)
            /\ io'.success => call_answered'
            /\ ~io'.success => call_answered' = call_answered
       ELSE call_answered' = call_answered]_vars

\* answer() has failed on a session that was not answered
C19_Witness ==
  /\ io.op = "answer"
  /\ io.result = <<"5","1","0"," ","I","n","v","a","l","i","d">>
  /\ ~io.success
  /\ ~call_answered

\* C20: hangup() leaves connected false whatever the exchange and leaves
\* call_answered alone; a second hangup() leaves the session as the first
\* left it
C20_HangupIdempotent ==
  [][(OpCalled /\ io'.op = "hangup") =>
       /\ ~connected'
       /\ call_answered' = call_answered
       /\ io.op = "hangup" =>
            (connected' = connected /\ call_answered' = call_answered)]_vars

\* hangup() has been called twice, the second time with a positive response
C20_Witness ==
  /\ io.op = "hangup"
  /\ io.n = 2
  /\ hangups = 2
  /\ io.result = <<"2","0","0"," ","r","e","s","u","l","t","=","0">>
  /\ ~connected


----------------------------------------------------------------------------
(* Termination of main() *)

\* Every step of main() ends: a command's response arrives or the stream
\* fails, a recording is bounded by its timeout, synthesis, transcription
\* and generation return or time out. The process is single threaded, so it
\* takes its next step whenever it has one.
SpecLive == Spec /\ WF_vars(Next)

\* the number of iterations the loop has started
TurnsStarted == IF phase \in {"loop", "ended"} THEN turn + 1 ELSE 0

\* C21: the loop starts at most max_turns iterations, an interrupted
\* iteration using up its turn like any other, and every call whose loop was
\* entered comes to the hangup step (or, after an unexpected error, to the
\* end of the error handler)
C21_LoopBounded ==
  /\ [](TurnsStarted <= max_turns)
  /\ [][(phase = "loop" /\ pc' = "listen" /\ pc # "relisten"
           /\ errorAt' = errorAt)
          => (turn' = turn + 1 /\ turn' < max_turns)]_vars
  /\ (phase = "loop" /\ ~Returned) ~> (pc = "hangup" \/ pc = "cleanup_failed")

\* the range was exhausted with no exit condition having fired, and the call
\* was hung up
C21_Witness ==
  /\ pc = "done"
  /\ loop_exit = "max_turns_reached"
  /\ turn = max_turns - 1
  /\ ~should_exit
  /\ hangups = 1

----------------------------------------------------------------------------
(* The error handler of main() *)

\* C22 as stated: after an unexpected error in the greeting or in a turn
\* (the call was answered before either began) the handler does not go back
\* to the dialogue, writes no ANSWER for the call that is already answered,
\* and has written exactly one HANGUP when it is through
C22_HandlerCleansUp ==
  [][(errorAt \in {"greeting", "loop"}) =>
       (/\ pc' \in {"answer", "verbose", "hangup", "done", "cleanup_failed"}
        /\ (pc = "answer" => lastCmd' # "ANSWER")
        /\ (pc' = "done" => hangups' = 1))]_vars

----------------------------------------------------------------------------
(* Delivery of a turn's reply *)

\* C23: a turn whose reply could not be synthesized or converted writes one
\* STREAM FILE for the fallback prompt and nothing else for its delivery;
\* the loop then ends only on the turn's exit reason, on a disconnected
\* session or on the last turn, and goes on to the next listen otherwise
C23_FallbackThenNextTurn ==
  [][/\ (phase = "loop" /\ pc' = "fallback") => pc = "respond"
     /\ (phase = "loop" /\ pc = "fallback") =>
          /\ lastCmd' = "STREAM FILE"
          /\ errorAt' = errorAt
          /\ pc' \in {"listen", "hangup"}
          /\ IF should_exit
             THEN phase' = "ended" /\ loop_exit' = exit_reason
             ELSE IF ~connected'
             THEN phase' = "ended" /\ loop_exit' = "disconnected"
             ELSE IF turn + 1 < max_turns
             THEN /\ phase' = "loop"
                  /\ pc' = "listen"
                  /\ turn' = turn + 1
                  /\ loop_exit' = "none"
             ELSE phase' = "ended" /\ loop_exit' = "max_turns_reached"]_vars

\* a turn after the first is listening right after the fallback prompt of
\* the turn before it
C23_Witness ==
  /\ phase = "loop"
  /\ pc = "listen"
  /\ turn >= 1
  /\ lastCmd = "STREAM FILE"
  /\ connected

----------------------------------------------------------------------------
(* The greeting *)

\* C24 as stated: a welcome whose play command Asterisk did not accept, on a
\* session that is still connected, is followed by the fallback prompt
\* before the greeting is left; and the greeting, unless an unexpected error
\* ends it, is left for the first listen of the loop with no reply to play
C24_GreetingFallsBackThenListens ==
  [][(phase = "greeting" /\ errorAt' = errorAt) =>
       (/\ (pc \in {"monitor", "stop"} /\ ~play_ok /\ connected /\ connected')
             => pc' \in {"stop", "fallback"}
        /\ phase' # "greeting" =>
             (phase' = "loop" /\ pc' = "listen" /\ turn' = 0
                /\ response' = <<>>))]_vars

----------------------------------------------------------------------------
(* voicebot_main.determine_voice_type on its own *)

\* config.VOICE_TYPES
VOICE_TYPES ==
  [empathetic |-> <<<<"s","o","r","r","y">>, <<"a","p","o","l","o","g","i","z","e">>, <<"u","n","d","e","r","s","t","a","n","d">>>>,
   helping    |-> <<<<"l","e","t","'","s">>, <<"t","r","y">>, <<"c","h","e","c","k">>, <<"r","e","s","t","a","r","t">>>>,
   technical  |-> <<<<"d","r","i","v","e","r">>, <<"s","y","s","t","e","m">>, <<"u","p","d","a","t","e">>, <<"w","i","n","d","o","w","s">>>>,
   default    |-> <<>>]

\* the word lists written out in determine_voice_type
EMPATHETIC_WORDS == <<<<"s","o","r","r","y">>, <<"a","p","o","l","o","g","i","z","e">>, <<"u","n","d","e","r","s","t","a","n","d">>>>

HELPING_WORDS == <<<<"l","e","t","'","s">>, <<"t","r","y">>, <<"c","h","e","c","k">>, <<"r","e","s","t","a","r","t">>>>

TECHNICAL_WORDS == <<<<"d","r","i","v","e","r">>, <<"s","y","s","t","e","m">>, <<"u","p","d","a","t","e">>, <<"w","i","n","d","o","w","s">>>>

\* the helping test made before the empathetic one
determine_voice_type_HelpingFirst(response_text) ==
  IF AnyPhrase(response_text, HELPING_WORDS) THEN "helping"
  ELSE IF AnyPhrase(response_text, EMPATHETIC_WORDS) THEN "empathetic"
  ELSE IF AnyPhrase(response_text, TECHNICAL_WORDS) THEN "technical"
  ELSE "default"

determine_voice_type(response_text) ==
  IF AnyPhrase(response_text, EMPATHETIC_WORDS) THEN "empathetic"
  ELSE IF AnyPhrase(response_text, HELPING_WORDS) THEN "helping"
  ELSE IF AnyPhrase(response_text, TECHNICAL_WORDS) THEN "technical"
  ELSE "default"

\* replies: every combination of an empathetic, a helping and a technical
\* fragment (or none of the kind), in several spellings
EmpatheticParts ==
  {<<>>, <<"S","o","r","r","y",","," ">>, <<"I"," ","A","P","O","L","O","G","I","Z","E","."," ">>, <<"I"," ","u","n","d","e","r","s","t","a","n","d"," ">>}

HelpingParts ==
  {<<>>, <<"L","e","t","'","s"," ">>, <<"t","r","y"," ">>, <<"C","h","e","c","k"," ">>, <<"R","E","S","T","A","R","T"," ">>, <<"o","u","r"," ","c","o","u","n","t","r","y"," ">>}

TechnicalParts ==
  {<<>>, <<"t","h","e"," ","d","r","i","v","e","r">>, <<"S","y","s","t","e","m">>, <<"u","p","d","a","t","e","s">>, <<"W","i","n","d","o","w","s">>, <<"n","o","w">>}

ReplySamples ==
  {e \o h \o t : e \in EmpatheticParts, h \in HelpingParts,
                 t \in TechnicalParts}

InitVoice ==
  /\ pc = "voice"
  /\ phase = "setup"
  /\ errorAt = "none"
  /\ session = 1
  /\ connected = TRUE
  /\ call_answered = TRUE
  /\ lastCmd = "none"
  /\ hangups = 0
  /\ turn = 0
  /\ failed_interactions = 0
  /\ no_response_count = 0
  /\ elapsed = 0
  /\ transcript = <<>>
  /\ response \in ReplySamples
  /\ should_exit = FALSE
  /\ exit_reason = "none"
  /\ interrupt = <<>>
  /\ interrupt_transcript = <<>>
  /\ file_size = -1
  /\ loop_exit = "none"
  /\ prompt = <<>>
  /\ asr_input = -1
  /\ scratch = FALSE
  /\ in_step = TRUE
  /\ io = NoIO
  /\ converted_left = FALSE
  /\ play_ok = TRUE
  /\ voice_type = "none"
  /\ conversation_history = <<>>
  /\ generate_calls = 0

\* voice_type = determine_voice_type(response)
DetermineVoice ==
  /\ pc = "voice"
  /\ voice_type' = determine_voice_type(response)
  /\ pc' = "voiced"
  /\ UNCHANGED <<phase, errorAt, lastCmd, hangups, in_step, io,
                 converted_left, play_ok, conversation_history,
                 generate_calls>>
  /\ UNCHANGED sessionVars
  /\ UNCHANGED loopVars
  /\ UNCHANGED recVars

SpecVoice == InitVoice /\ [][DetermineVoice]_vars

\* the reply, lowered, contains a word of the configured list `kind`
HasWordOf(text, kind) ==
  \E k \in 1..Len(VOICE_TYPES[kind]) : Contains(Lower(text), VOICE_TYPES[kind][k])

\* the elements of a list
Words(list) == {list[k] : k \in 1..Len(list)}

\* C25: the profile is the first of empathetic, helping, technical whose
\* configured word list has a word in the reply, and default if none has;
\* the lists written out in the function equal the configured table
C25_FirstMatchVoice ==
  /\ Words(EMPATHETIC_WORDS) = Words(VOICE_TYPES.empathetic)
  /\ Words(HELPING_WORDS) = Words(VOICE_TYPES.helping)
  /\ Words(TECHNICAL_WORDS) = Words(VOICE_TYPES.technical)
  /\ Words(VOICE_TYPES.default) = {}
  /\ pc = "voiced" =>
       /\ HasWordOf(response, "empathetic") => voice_type = "empathetic"
       /\ (~HasWordOf(response, "empathetic") /\ HasWordOf(response, "helping"))
            => voice_type = "helping"
       /\ (/\ ~HasWordOf(response, "empathetic")
           /\ ~HasWordOf(response, "helping")
           /\ HasWordOf(response, "technical")) => voice_type = "technical"
       /\ (/\ ~HasWordOf(response, "empathetic")
           /\ ~HasWordOf(response, "helping")
           /\ ~HasWordOf(response, "technical")) => voice_type = "default"

\* a reply with an empathetic, a helping and a technical word was classified
C25_Witness ==
  /\ pc = "voiced"
  /\ HasWordOf(response, "empathetic")
  /\ HasWordOf(response, "helping")
  /\ HasWordOf(response, "technical")
  /\ voice_type = "empathetic"

----------------------------------------------------------------------------
(* SimpleOllamaClient.generate on its own: the conversation history *)

\* len(self.conversation_history) > 10
HISTORY_CAP == 10

\* self.conversation_history[-8:]
HISTORY_KEEP == 8

\* number of generate calls made
MaxCalls == 14

\* truncation that keeps the oldest entries
HistoryAfter_KeepsOldest(h, entry) ==
  LET a == Append(h, entry) IN
  IF Len(a) > HISTORY_CAP THEN SubSeq(a, 1, HISTORY_KEEP) ELSE a

\* the history after a generation that got its reply: append, then cut
HistoryAfter(h, entry) ==
  LET a == Append(h, entry) IN
  IF Len(a) > HISTORY_CAP
  THEN SubSeq(a, Len(a) - HISTORY_KEEP + 1, Len(a))
  ELSE a

InitHistory ==
  /\ pc = "generate"
  /\ phase = "setup"
  /\ errorAt = "none"
  /\ session = 1
  /\ connected = TRUE
  /\ call_answered = TRUE
  /\ lastCmd = "none"
  /\ hangups = 0
  /\ turn = 0
  /\ failed_interactions = 0
  /\ no_response_count = 0
  /\ elapsed = 0
  /\ transcript = <<>>
  /\ response = <<>>
  /\ should_exit = FALSE
  /\ exit_reason = "none"
  /\ interrupt = <<>>
  /\ interrupt_transcript = <<>>
  /\ file_size = -1
  /\ loop_exit = "none"
  /\ prompt = <<>>
  /\ asr_input = -1
  /\ scratch = FALSE
  /\ in_step = TRUE
  /\ io = NoIO
  /\ converted_left = FALSE
  /\ play_ok = TRUE
  /\ voice_type = "none"
  /\ conversation_history = <<>>
  /\ generate_calls = 0

\* ollama.generate(prompt): the request succeeds or anything in the try
\* block raises; the n-th call's prompt and reply are named n
Generate ==
  /\ pc = "generate"
  /\ generate_calls < MaxCalls
  /\ generate_calls' = generate_calls + 1
  /\ \E ok \in BOOLEAN :
       /\ io' = [NoIO EXCEPT !.op = "generate", !.success = ok]
       /\ conversation_history' =
            IF ok
            THEN HistoryAfter(conversation_history,
                              [user |-> generate_calls', bot |-> generate_calls'])
            ELSE conversation_history
  /\ UNCHANGED <<pc, phase, errorAt, lastCmd, hangups, in_step,
                 converted_left, play_ok, voice_type>>
  /\ UNCHANGED sessionVars
  /\ UNCHANGED loopVars
  /\ UNCHANGED recVars

SpecHistory == InitHistory /\ [][Generate]_vars

\* s is the last Len(s) entries of t
IsSuffix(s, t) ==
  /\ Len(s) <= Len(t)
  /\ \A i \in 1..Len(s) : s[i] = t[Len(t) - Len(s) + i]

\* C26: the history is in arrival order and never longer than the cap; a
\* generation that got its reply leaves the history as it was with the new
\* pair at the end, cut to its latest 8 entries when that made 11; a failed
\* generation leaves the history as it was
C26_HistoryCapped ==
  /\ [](Len(conversation_history) <= 10)
  /\ [](\A i \in 1..(Len(conversation_history) - 1) :
          conversation_history[i].user < conversation_history[i + 1].user)
  /\ [][generate_calls' = generate_calls + 1 =>
          IF io'.success
          THEN LET new == [user |-> generate_calls', bot |-> generate_calls']
                   all == conversation_history \o <<new>>
               IN /\ IsSuffix(conversation_history', all)
                  /\ Len(conversation_history') =
                       IF Len(conversation_history) = 10 THEN 8
                       ELSE Len(conversation_history) + 1
          ELSE conversation_history' = conversation_history]_vars

\* the history was cut after a failed generation had been skipped: it holds
\* 8 entries, the oldest ones are gone and the latest call is the last entry
C26_Witness ==
  /\ Len(conversation_history) = 8
  /\ generate_calls = 12
  /\ conversation_history[1].user = 5
  /\ conversation_history[8].user = 12

----------------------------------------------------------------------------
(* Files *)

\* C27 as stated, for the converted playback files of a call that ended
\* with no unexpected error: when main() has returned none of them is on
\* disk
C27_NoFileOutlivesCall ==
  (pc = "done" /\ errorAt = "none") => ~converted_left

----------------------------------------------------------------------------
(* The barge-in player *)

\* C28 as stated: a delivery writes one EXEC Background and then one
\* monitoring RECORD FILE; a capture at or above the gate is an interruption
\* (EXEC StopPlayback is written next, before anything is transcribed) and a
\* capture below it, or no capture, is none (no stop, no transcript)
C28_GateDecidesInterruption ==
  [][/\ pc = "bg" => (lastCmd' = "EXEC Background" /\ pc' = "monitor")
     /\ (pc = "monitor" /\ errorAt' = errorAt) =>
          /\ lastCmd' = "RECORD FILE monitor"
          /\ asr_input' = -1
          /\ IF file_size' >= MONITOR_GATE
             THEN pc' = "stop"
             ELSE pc' # "stop" /\ interrupt' = <<>>
     /\ pc = "stop" =>
          /\ lastCmd' = "EXEC StopPlayback"
          /\ asr_input' = file_size]_vars

----------------------------------------------------------------------------
(* The session at the end of the response stream, and its answered flag *)

\* C29 as stated: a command whose read finds the response stream at its end
\* (no line) leaves the session disconnected
C29_EndOfInputDisconnects ==
  [][(OpCalled /\ io'.op = "command" /\ ~io'.x.raised /\ io'.x.line = <<>>)
       => ~connected']_vars

\* C30 as stated: a session that is answered is connected where answer()
\* has just reported success, and the greeting and the turn loop are entered
\* by a session that is connected and answered
C30_AnsweredWhileConnected ==
  [][/\ (errorAt = "none" /\ pc = "answer" /\ pc' = "verbose")
          => (call_answered' /\ connected')
     /\ (errorAt = "none" /\ phase' \in {"greeting", "loop"}
           /\ phase' # phase) => (call_answered /\ connected)]_vars

----------------------------------------------------------------------------
(* The counters of the turn loop *)

\* C31 as stated: a turn that captured decodable caller speech as a barge-in
\* (the transcript was handed to the generator; the speech marker of an
\* undecodable capture is not speech) has broken the run of silent turns:
\* no_response_count is 0 when the next turn listens, so one empty
\* transcript there cannot reach the no-response threshold
C31_BargeInBreaksRun ==
  (phase = "loop" /\ pc = "listen" /\ prompt # <<>> /\ prompt # VOICE_DETECTED)
    => no_response_count = 0

\* C32: failed_interactions and no_response_count are equal in every state,
\* so check_exit_conditions never sees different values for them
C32_CountersEqual ==
  failed_interactions = no_response_count

\* the loop has evaluated a turn after one silent listen and is delivering
\* the repeat request
C32_Witness ==
  /\ phase = "loop"
  /\ pc = "bg"
  /\ failed_interactions = 1
  /\ no_response_count = 1
  /\ response = REPEAT_REPLY
====
